---- MODULE Spec2Model ----
(***************************************************************************)
(* Webhook relay (Motia steps): capture -> process -> replay / manual      *)
(* retry -> forward.  The store, the event bus and every handler of        *)
(* src/src/webhooks are modelled; each await of a handler that touches     *)
(* the store is a step of its own, so that handlers interleave as they do  *)
(* on the event loop.                                                      *)
(***************************************************************************)
EXTENDS Integers, Sequences, FiniteSets, Bags, TLC

VARIABLES
    store,        \* state group "webhooks": webhookId -> StoredWebhook
    bus,          \* bag of emitted messages not yet handed to a subscriber
    running,      \* bag of handler executions suspended at an await
    returned,     \* sequence of the webhookIds returned by CaptureWebhook
    response,     \* what the last step answered to its HTTP caller, if it answered one
    request,      \* the HTTP request that response answers
    posted,       \* bag of the POSTs the targets have been sent
    replayed,     \* webhookId -> targetUrl of the Replay accepted last for it
    webhookFeed,  \* stream "webhookFeed": groupId -> (item id -> item)
    now,          \* the clock read by Date.now() / new Date()
    nevents       \* number of things the environment has done

vars ==
    <<store, bus, running, returned, response, request, webhookFeed, posted,
      replayed, now, nevents>>

----------------------------------------------------------------------------
(* Bounds of the model *)

MaxEvents == 4

----------------------------------------------------------------------------
(* JavaScript objects: a missing key is an absent field *)

Has(o, k) == k \in DOMAIN o

Put(o, k, v) == [x \in DOMAIN o \cup {k} |-> IF x = k THEN v ELSE o[x]]

EmptyObject == [x \in {} |-> 0]

\* the value of a field that is not there
Undefined == "undefined"

----------------------------------------------------------------------------
(* The environment: callers and targets *)

StringHeader(v) == [isArray |-> FALSE, value |-> v]
ArrayHeader(vs) == [isArray |-> TRUE, values |-> vs]

\* What a caller may POST to /relay/:projectId
CaptureRequests ==
    { [projectId |-> "p1",
       headers |-> ("content-type" :> StringHeader("application/json"))
                   @@ ("host" :> StringHeader("relay.test")),
       body |-> [a |-> 1]],
      [projectId |-> "p2",
       headers |-> ("content-type" :> ArrayHeader(<<"text/plain", "text/html">>))
                   @@ ("x-signature" :> StringHeader("sig")),
       body |-> [event |-> "push"]],
      [projectId |-> "p1",
       headers |-> ("host" :> StringHeader("relay.test")),
       body |-> [a |-> 1]] }

OkUrl == "https://ok.test/hook"
FlakyUrl == "https://flaky.test/hook"
URLs == {OkUrl, FlakyUrl}
MalformedUrl == "not a url"

NetworkError == [threw |-> TRUE, message |-> "fetch failed"]
HttpResponse(code, text) == [threw |-> FALSE, status |-> code, statusText |-> text]

\* What a POST to the target can come back with: a response, or fetch rejects
TargetResponses(url) ==
    IF url = OkUrl THEN {HttpResponse(200, "OK")}
    ELSE {HttpResponse(200, "OK"), HttpResponse(304, "Not Modified"),
          HttpResponse(404, "Not Found"),
          HttpResponse(503, "Service Unavailable"), NetworkError}

\* Response.ok of the Fetch API: the status is in the range 200-299
ResponseOk(r) == r.status >= 200 /\ r.status <= 299

\* crypto.randomUUID(): the n-th value drawn differs from the ones before it
RandomUUID(n) == "uuid" \o ToString(n)

\* new Date().toISOString() of a clock that reads t milliseconds (t < 10)
ToISOString(t) == "1970-01-01T00:00:00.00" \o ToString(t) \o "Z"

----------------------------------------------------------------------------
(* src/src/webhooks/list-failed-webhooks.step.ts: the types module *)

WebhookStatus == {"received", "forwarded", "failed", "retrying", "dlq"}

\* an id made of the timestamp alone
generateWebhookIdFromTimestamp(timestamp, random) ==
    "wh_" \o ToString(timestamp)

generateWebhookId(timestamp, random) ==
    "wh_" \o ToString(timestamp) \o "_" \o random

----------------------------------------------------------------------------
(* The store and the bus *)

Exists(id) == id \in DOMAIN store

Message(topic, data) == [topic |-> topic, data |-> data]

\* an emit that puts the message on the topic twice
EmitTwice(topic, data) ==
    bus (+) SetToBag({Message(topic, data)}) (+) SetToBag({Message(topic, data)})

Emit(topic, data) == bus (+) SetToBag({Message(topic, data)})

Subscribed(topic) == {m \in BagToSet(bus) : m.topic = topic}

Suspend(x) == running (+) SetToBag({x})

Resume(x) == running (-) SetToBag({x})

Suspended(handler, pc) ==
    {x \in BagToSet(running) : x.handler = handler /\ x.pc = pc}

NoResponse == [handler |-> "none"]

NoRequest == [handler |-> "none"]

\* webhook-feed.stream.ts declares the stream; no handler takes `streams` from
\* its context, so no step writes webhookFeed
Init ==
    /\ store = EmptyObject
    /\ bus = EmptyBag
    /\ running = EmptyBag
    /\ returned = << >>
    /\ response = NoResponse
    /\ request = NoRequest
    /\ webhookFeed = EmptyObject
    /\ posted = EmptyBag
    /\ replayed = EmptyObject
    /\ now = 0
    /\ nevents = 0

----------------------------------------------------------------------------
(* The clock and the bus *)

Tick ==
    /\ nevents < MaxEvents
    /\ nevents' = nevents + 1
    /\ now' = now + 1
    /\ response' = NoResponse
    /\ request' = NoRequest
    /\ UNCHANGED <<webhookFeed, posted, replayed, store, bus, running, returned>>

\* The bus hands m to its subscriber.  Delivery is at-least-once: the bus may
\* keep the message and hand it over again later.
Hand(m) ==
    \/ /\ bus' = bus (-) SetToBag({m})
       /\ UNCHANGED nevents
    \/ /\ nevents < MaxEvents
       /\ nevents' = nevents + 1
       /\ UNCHANGED bus

----------------------------------------------------------------------------
(* part_001: CaptureWebhook, POST /relay/:projectId *)

CaptureWebhook ==
    /\ nevents < MaxEvents
    /\ nevents' = nevents + 1
    /\ \E req \in CaptureRequests :
        LET webhookId == generateWebhookId(now, RandomUUID(Len(returned)))
        IN  /\ bus' = Emit("webhook-captured",
                           [webhookId |-> webhookId,
                            projectId |-> req.projectId,
                            method |-> "POST",
                            headers |-> req.headers,
                            body |-> req.body,
                            receivedAt |-> ToISOString(now)])
            /\ returned' = Append(returned, webhookId)
            /\ request' = [handler |-> "CaptureWebhook",
                           projectId |-> req.projectId,
                           headers |-> req.headers, body |-> req.body]
            /\ response' = [handler |-> "CaptureWebhook", status |-> 200,
                            body |-> [webhookId |-> webhookId, status |-> "received"]]
    /\ UNCHANGED <<webhookFeed, posted, replayed, store, running, now>>

----------------------------------------------------------------------------
(* process-webhook.step.ts: ProcessWebhook, subscribes webhook-captured *)

\* a stored record that lacks the request method
ProcessedRecordWithoutMethod(input) ==
    [id |-> input.webhookId,
     projectId |-> input.projectId,
     headers |-> input.headers,
     body |-> input.body,
     receivedAt |-> input.receivedAt,
     status |-> "received"]

ProcessedRecord(input) ==
    [id |-> input.webhookId,
     projectId |-> input.projectId,
     method |-> input.method,
     headers |-> input.headers,
     body |-> input.body,
     receivedAt |-> input.receivedAt,
     status |-> "received"]

ProcessWebhook ==
    \E m \in Subscribed("webhook-captured") :
        /\ Hand(m)
        /\ store' = Put(store, m.data.webhookId, ProcessedRecord(m.data))
        /\ response' = NoResponse
        /\ request' = NoRequest
        /\ UNCHANGED <<webhookFeed, posted, replayed, running, returned, now>>

----------------------------------------------------------------------------
(* get-webhook.step.ts: GetWebhook, GET /webhooks/:id *)

UnknownId == "wh_0_unknown"

\* the ids a caller may put in a path: the ones it was given, or another one
RequestIds == {returned[i] : i \in DOMAIN returned} \cup {UnknownId}

\* a missing record answered as a bad request
NotFoundAsBadRequest(handler) ==
    [handler |-> handler, status |-> 400, body |-> [error |-> "Webhook not found"]]

NotFound(handler) ==
    [handler |-> handler, status |-> 404, body |-> [error |-> "Webhook not found"]]

\* a lookup that answers for an id as soon as Capture has returned it
GetWebhookResponseOnceReturned(id) ==
    IF Exists(id) THEN [handler |-> "GetWebhook", status |-> 200, body |-> store[id]]
    ELSE IF \E i \in DOMAIN returned : returned[i] = id
         THEN [handler |-> "GetWebhook", status |-> 200,
               body |-> [id |-> id, status |-> "received"]]
         ELSE NotFound("GetWebhook")

GetWebhookResponse(id) ==
    IF ~Exists(id) THEN NotFound("GetWebhook")
    ELSE [handler |-> "GetWebhook", status |-> 200, body |-> store[id]]

\* a lookup that stamps the record it reads
GetWebhookStampingRead ==
    /\ nevents < MaxEvents
    /\ nevents' = nevents + 1
    /\ \E id \in RequestIds :
        /\ request' = [handler |-> "GetWebhook", id |-> id]
        /\ response' = GetWebhookResponse(id)
        /\ store' = IF Exists(id)
                    THEN Put(store, id, Put(store[id], "lastReadAt", ToISOString(now)))
                    ELSE store
    /\ UNCHANGED <<webhookFeed, posted, replayed, bus, running, returned, now>>

GetWebhook ==
    /\ nevents < MaxEvents
    /\ nevents' = nevents + 1
    /\ \E id \in RequestIds :
        /\ request' = [handler |-> "GetWebhook", id |-> id]
        /\ response' = GetWebhookResponse(id)
    /\ UNCHANGED <<webhookFeed, posted, replayed, store, bus, running, returned, now>>

----------------------------------------------------------------------------
(* list-failed-webhooks.step.ts lines 1-78: ListFailedWebhooks, GET /webhooks/failed *)

\* a filter that leaves the retrying records out
isFailedWebhookWithoutRetrying(webhook) ==
    \/ webhook.status = "failed"
    \/ webhook.status = "dlq"

isFailedWebhook(webhook) ==
    \/ webhook.status = "failed"
    \/ webhook.status = "dlq"
    \/ webhook.status = "retrying"

\* state.getGroup: all the records of the group, in an order of the store's choosing
GetGroup ==
    LET n == Cardinality(DOMAIN store)
    IN  {[i \in 1..n |-> store[ids[i]]] :
            ids \in {f \in [1..n -> DOMAIN store] :
                        \A i, j \in 1..n : i # j => f[i] # f[j]}}

\* a field that is undefined in the mapped object is left out of the JSON body
CopyIfPresent(o, webhook, k) == IF Has(webhook, k) THEN Put(o, k, webhook[k]) ELSE o

\* lines 57-67
FailedWebhookProjection(webhook) ==
    CopyIfPresent(CopyIfPresent(CopyIfPresent(CopyIfPresent(
        [id |-> webhook.id,
         projectId |-> webhook.projectId,
         status |-> webhook.status,
         receivedAt |-> webhook.receivedAt,
         retryCount |-> IF Has(webhook, "retryCount")
                        THEN webhook.retryCount ELSE 0],
        webhook, "targetUrl"), webhook, "errorMessage"),
        webhook, "lastRetryAt"), webhook, "dlqAt")

RECURSIVE MapProjection(_)
MapProjection(webhooks) ==
    IF webhooks = << >> THEN << >>
    ELSE <<FailedWebhookProjection(Head(webhooks))>> \o MapProjection(Tail(webhooks))

ListFailedWebhooksResponse(allWebhooks) ==
    LET webhooks == MapProjection(SelectSeq(allWebhooks, isFailedWebhook))
    IN  [handler |-> "ListFailedWebhooks", status |-> 200,
         body |-> [webhooks |-> webhooks, total |-> Len(webhooks)]]

ListFailedWebhooks ==
    /\ nevents < MaxEvents
    /\ nevents' = nevents + 1
    /\ \E allWebhooks \in GetGroup :
        response' = ListFailedWebhooksResponse(allWebhooks)
    /\ request' = [handler |-> "ListFailedWebhooks"]
    /\ UNCHANGED <<webhookFeed, posted, replayed, store, bus, running, returned, now>>

----------------------------------------------------------------------------
(* forward-webhook.step.ts lines 83-144: ReplayWebhook, POST /webhooks/:id/replay *)

\* a body schema that takes any string for a URL
IsUrlOfAnyString(s) == TRUE

\* a body schema that asks for a URL only when the body has a targetUrl
IsUrlOrMissing(s) == s \in URLs \/ s = Undefined

\* z.url(): whether the string parses as a URL
IsUrl(s) == s \in URLs

\* lines 113-143: parse the body, look the record up, emit webhook-forward
ReplayWebhook ==
    /\ nevents < MaxEvents
    /\ nevents' = nevents + 1
    \* the body's targetUrl: a URL, another string, or Undefined when it is missing
    /\ \E id \in RequestIds, targetUrl \in URLs \cup {MalformedUrl, Undefined} :
      /\ request' = [handler |-> "ReplayWebhook", id |-> id, targetUrl |-> targetUrl]
      /\ IF ~IsUrl(targetUrl)
          THEN /\ response' = [handler |-> "ReplayWebhook", threw |-> "ZodError"]
               /\ UNCHANGED <<bus, replayed>>
          ELSE IF ~Exists(id)
          THEN /\ response' = NotFound("ReplayWebhook")
               /\ UNCHANGED <<bus, replayed>>
          ELSE /\ bus' = Emit("webhook-forward",
                              [webhookId |-> id,
                               targetUrl |-> targetUrl,
                               headers |-> store[id].headers,
                               body |-> store[id].body])
               /\ response' = [handler |-> "ReplayWebhook", status |-> 200,
                               body |-> [webhookId |-> id, status |-> "accepted"]]
               /\ replayed' = Put(replayed, id, targetUrl)
    /\ UNCHANGED <<webhookFeed, posted, store, running, returned, now>>

----------------------------------------------------------------------------
(* retry-webhook.step.ts: RetryWebhook, POST /webhooks/:id/retry *)

\* `webhook.retryCount || 0`
RetryCountOf(webhook) == IF Has(webhook, "retryCount") THEN webhook.retryCount ELSE 0

\* a check of the target URL that lets every record through
NoTargetUrlNeverHolds(webhook) == FALSE

\* `!webhook.targetUrl`
NoTargetUrl(webhook) == ~Has(webhook, "targetUrl") \/ webhook.targetUrl = ""

\* a manual retry that counts itself twice
RetriedRecordCountingTwice(webhook, t) ==
    Put(Put(Put(webhook, "status", "retrying"),
            "retryCount", RetryCountOf(webhook) + 2),
        "lastRetryAt", ToISOString(t))

\* a manual retry that also restamps the record's receivedAt
RetriedRecordRestampingReceipt(webhook, t) ==
    Put(Put(Put(Put(webhook, "status", "retrying"),
                "retryCount", RetryCountOf(webhook) + 1),
            "lastRetryAt", ToISOString(t)),
        "receivedAt", ToISOString(t))

\* lines 58-60: the record as ManualRetry rewrites it
RetriedRecord(webhook, t) ==
    Put(Put(Put(webhook, "status", "retrying"),
            "retryCount", RetryCountOf(webhook) + 1),
        "lastRetryAt", ToISOString(t))

\* lines 31-60: look the record up, refuse or rewrite the copy
RetryWebhookGet ==
    /\ nevents < MaxEvents
    /\ nevents' = nevents + 1
    /\ \E id \in RequestIds :
        IF ~Exists(id)
        THEN /\ response' = NotFound("RetryWebhook")
             /\ request' = [handler |-> "RetryWebhook", id |-> id]
             /\ UNCHANGED running
        ELSE IF NoTargetUrl(store[id])
        THEN /\ response' = [handler |-> "RetryWebhook", status |-> 400,
                             body |-> [error |-> "Webhook has no target URL to retry"]]
             /\ request' = [handler |-> "RetryWebhook", id |-> id]
             /\ UNCHANGED running
        ELSE /\ running' = Suspend([handler |-> "RetryWebhook", pc |-> "set",
                                    id |-> id,
                                    webhook |-> RetriedRecord(store[id], now)])
             /\ response' = NoResponse
             /\ request' = NoRequest
    /\ UNCHANGED <<webhookFeed, posted, replayed, store, bus, returned, now>>

\* line 61: state.set
RetryWebhookSet ==
    \E x \in Suspended("RetryWebhook", "set") :
        /\ store' = Put(store, x.id, x.webhook)
        /\ running' = Resume(x) (+) SetToBag({[x EXCEPT !.pc = "emit"]})
        /\ response' = NoResponse
        /\ request' = NoRequest
        /\ UNCHANGED <<webhookFeed, posted, replayed, bus, returned, now, nevents>>

\* lines 64-82: emit webhook-forward and answer
RetryWebhookEmit ==
    \E x \in Suspended("RetryWebhook", "emit") :
        /\ running' = Resume(x)
        /\ bus' = Emit("webhook-forward",
                       [webhookId |-> x.id,
                        targetUrl |-> x.webhook.targetUrl,
                        headers |-> x.webhook.headers,
                        body |-> x.webhook.body])
        /\ request' = [handler |-> "RetryWebhook", id |-> x.id]
        /\ response' = [handler |-> "RetryWebhook", status |-> 200,
                        body |-> [message |-> "Webhook retry initiated",
                                  webhookId |-> x.id]]
        /\ UNCHANGED <<webhookFeed, posted, replayed, store, returned, now, nevents>>

----------------------------------------------------------------------------
(* forward-webhook.step.ts lines 1-81: ForwardWebhook, subscribes webhook-forward *)

\* forwarding every captured header, each with its first value
ForwardHeadersPassingAll(headers) ==
    [k \in DOMAIN headers |->
        IF headers[k].isArray THEN headers[k].values[1] ELSE headers[k].value]

\* lines 32-38: only Content-Type is forwarded
ForwardHeaders(headers) ==
    IF ~Has(headers, "content-type") THEN EmptyObject
    ELSE LET contentType == headers["content-type"]
         IN  IF contentType.isArray
             THEN "Content-Type" :> (IF Len(contentType.values) > 0
                                     THEN contentType.values[1] ELSE Undefined)
             ELSE IF contentType.value = "" THEN EmptyObject
             ELSE "Content-Type" :> contentType.value

\* line 43: JSON.stringify, on the bodies callers send here
JSONStringify(body) ==
    IF body = [a |-> 1] THEN "{\"a\":1}"
    ELSE IF body = [event |-> "push"] THEN "{\"event\":\"push\"}"
    ELSE Undefined

\* lines 40-44: the request fetch sends
ForwardRequest(input) ==
    [method |-> "POST",
     url |-> input.targetUrl,
     headers |-> ForwardHeaders(input.headers),
     body |-> JSONStringify(input.body)]

\* line 52: `HTTP ${response.status}: ${response.statusText}`
HttpErrorMessage(r) == "HTTP " \o ToString(r.status) \o ": " \o r.statusText

\* a delivery attempt that starts the retry count afresh
ForwardedRecordResettingRetryCount(webhook, targetUrl, fetched, t) ==
    LET outcome == Put(Put(Put(webhook, "forwardedAt", ToISOString(t)),
                           "targetUrl", targetUrl),
                       "retryCount", 0)
    IN  IF fetched.threw
        THEN Put(Put(outcome, "status", "failed"), "errorMessage", fetched.message)
        ELSE IF ResponseOk(fetched)
        THEN Put(outcome, "status", "forwarded")
        ELSE Put(Put(outcome, "status", "failed"),
                 "errorMessage", "HTTP " \o ToString(fetched.status) \o ": "
                                 \o fetched.statusText)

\* a delivery attempt that records a failure without touching the status
ForwardedRecordKeepingStatusOnFailure(webhook, targetUrl, fetched, t) ==
    LET outcome == Put(Put(webhook, "forwardedAt", ToISOString(t)),
                       "targetUrl", targetUrl)
    IN  IF fetched.threw
        THEN Put(outcome, "errorMessage", fetched.message)
        ELSE IF ResponseOk(fetched)
        THEN Put(outcome, "status", "forwarded")
        ELSE Put(outcome, "errorMessage",
                 "HTTP " \o ToString(fetched.status) \o ": " \o fetched.statusText)

\* a delivery attempt that leaves the record's targetUrl as it was
ForwardedRecordKeepingTargetUrl(webhook, targetUrl, fetched, t) ==
    LET outcome == Put(webhook, "forwardedAt", ToISOString(t))
    IN  IF fetched.threw
        THEN Put(Put(outcome, "status", "failed"), "errorMessage", fetched.message)
        ELSE IF ResponseOk(fetched)
        THEN Put(outcome, "status", "forwarded")
        ELSE Put(Put(outcome, "status", "failed"),
                 "errorMessage", "HTTP " \o ToString(fetched.status) \o ": "
                                 \o fetched.statusText)

\* an outcome that records no message when fetch throws
ForwardedRecordWithoutMessageOnThrow(webhook, targetUrl, fetched, t) ==
    LET outcome == Put(Put(webhook, "forwardedAt", ToISOString(t)),
                       "targetUrl", targetUrl)
    IN  IF fetched.threw
        THEN Put(outcome, "status", "failed")
        ELSE IF ResponseOk(fetched)
        THEN Put(outcome, "status", "forwarded")
        ELSE Put(Put(outcome, "status", "failed"),
                 "errorMessage", HttpErrorMessage(fetched))

\* an outcome that has no forwardedAt when fetch throws
ForwardedRecordWithoutTimeOnThrow(webhook, targetUrl, fetched, t) ==
    IF fetched.threw
    THEN Put(Put(Put(webhook, "targetUrl", targetUrl), "status", "failed"),
             "errorMessage", fetched.message)
    ELSE LET outcome == Put(Put(webhook, "forwardedAt", ToISOString(t)),
                            "targetUrl", targetUrl)
         IN  IF ResponseOk(fetched)
             THEN Put(outcome, "status", "forwarded")
             ELSE Put(Put(outcome, "status", "failed"),
                      "errorMessage", HttpErrorMessage(fetched))

\* an outcome that takes every answer below 400 for a delivery
ForwardedRecordTakingRedirectForOk(webhook, targetUrl, fetched, t) ==
    LET outcome == Put(Put(webhook, "forwardedAt", ToISOString(t)),
                       "targetUrl", targetUrl)
    IN  IF fetched.threw
        THEN Put(Put(outcome, "status", "failed"), "errorMessage", fetched.message)
        ELSE IF fetched.status < 400
        THEN Put(outcome, "status", "forwarded")
        ELSE Put(Put(outcome, "status", "failed"),
                 "errorMessage", HttpErrorMessage(fetched))

\* lines 48-53 (a response came back) and lines 73-77 (the POST threw)
ForwardedRecord(webhook, targetUrl, fetched, t) ==
    LET outcome == Put(Put(webhook, "forwardedAt", ToISOString(t)),
                       "targetUrl", targetUrl)
    IN  IF fetched.threw
        THEN Put(Put(outcome, "status", "failed"), "errorMessage", fetched.message)
        ELSE IF ResponseOk(fetched)
        THEN Put(outcome, "status", "forwarded")
        ELSE Put(Put(outcome, "status", "failed"),
                 "errorMessage", HttpErrorMessage(fetched))

\* a handler that sends its POST a second time before it looks at the answer
ForwardWebhookPostTwice(m) ==
    \E fetched \in TargetResponses(m.data.targetUrl) :
        /\ posted' = posted (+) SetToBag({[url |-> m.data.targetUrl,
                                            request |-> ForwardRequest(m.data)]})
                            (+) SetToBag({[url |-> m.data.targetUrl,
                                            request |-> ForwardRequest(m.data)]})
        /\ running' = Suspend([handler |-> "ForwardWebhook", pc |-> "get",
                               input |-> m.data,
                               sent |-> ForwardRequest(m.data),
                               fetched |-> fetched])
        /\ response' = NoResponse
        /\ request' = NoRequest
        /\ UNCHANGED <<webhookFeed, replayed, store, returned, now>>

\* lines 26-44: the POST to the target and what comes back
ForwardWebhookPost(m) ==
    \E fetched \in TargetResponses(m.data.targetUrl) :
        /\ posted' = posted (+) SetToBag({[url |-> m.data.targetUrl,
                                            request |-> ForwardRequest(m.data)]})
        /\ running' = Suspend([handler |-> "ForwardWebhook", pc |-> "get",
                               input |-> m.data,
                               sent |-> ForwardRequest(m.data),
                               fetched |-> fetched])
        /\ response' = NoResponse
        /\ request' = NoRequest
        /\ UNCHANGED <<webhookFeed, replayed, store, returned, now>>

ForwardWebhookFetch ==
    \E m \in Subscribed("webhook-forward") : Hand(m) /\ ForwardWebhookPost(m)

\* a lookup that goes on to write whether or not it found a record
ForwardWebhookGetWithoutNullCheck ==
    \E x \in Suspended("ForwardWebhook", "get") :
        /\ running' = Resume(x) (+) SetToBag({
                    [handler |-> "ForwardWebhook", pc |-> "set", input |-> x.input,
                     sent |-> x.sent, fetched |-> x.fetched,
                     webhook |-> ForwardedRecord(
                                    IF Exists(x.input.webhookId)
                                    THEN store[x.input.webhookId] ELSE EmptyObject,
                                    x.input.targetUrl, x.fetched, now)]})
        /\ response' = NoResponse
        /\ request' = NoRequest
        /\ UNCHANGED <<webhookFeed, posted, replayed, store, bus, returned, now, nevents>>

\* lines 46-53 and 71-77: state.get, then the copy is rewritten
ForwardWebhookGet ==
    \E x \in Suspended("ForwardWebhook", "get") :
        /\ IF Exists(x.input.webhookId)
           THEN running' = Resume(x) (+) SetToBag({
                    [handler |-> "ForwardWebhook", pc |-> "set", input |-> x.input,
                     sent |-> x.sent, fetched |-> x.fetched,
                     webhook |-> ForwardedRecord(store[x.input.webhookId],
                                                 x.input.targetUrl, x.fetched, now)]})
           ELSE running' = Resume(x)
        /\ response' = NoResponse
        /\ request' = NoRequest
        /\ UNCHANGED <<webhookFeed, posted, replayed, store, bus, returned, now, nevents>>

\* a write of the outcome that drops the record of a failed attempt
ForwardWebhookSetDroppingFailed ==
    \E x \in Suspended("ForwardWebhook", "set") :
        /\ store' = IF x.webhook.status = "failed"
                    THEN [id \in DOMAIN store \ {x.input.webhookId} |-> store[id]]
                    ELSE Put(store, x.input.webhookId, x.webhook)
        /\ running' = Resume(x)
        /\ response' = NoResponse
        /\ request' = NoRequest
        /\ UNCHANGED <<webhookFeed, posted, replayed, bus, returned, now, nevents>>

\* a write of the outcome onto the record the store holds at the time of the write
ForwardWebhookSetOntoCurrent ==
    \E x \in Suspended("ForwardWebhook", "set") :
        LET current == store[x.input.webhookId]
            Outcome == {"status", "forwardedAt", "targetUrl", "errorMessage"}
        IN  /\ store' = Put(store, x.input.webhookId,
                            [k \in DOMAIN current \cup DOMAIN x.webhook |->
                                IF k \in Outcome /\ Has(x.webhook, k) THEN x.webhook[k]
                                ELSE IF Has(current, k) THEN current[k]
                                ELSE x.webhook[k]])
            /\ running' = Resume(x)
            /\ response' = NoResponse
            /\ request' = NoRequest
            /\ UNCHANGED <<webhookFeed, posted, replayed, bus, returned, now, nevents>>

\* lines 54 and 78: state.set
ForwardWebhookSet ==
    \E x \in Suspended("ForwardWebhook", "set") :
        /\ store' = Put(store, x.input.webhookId, x.webhook)
        /\ running' = Resume(x)
        /\ response' = NoResponse
        /\ request' = NoRequest
        /\ UNCHANGED <<webhookFeed, posted, replayed, bus, returned, now, nevents>>

----------------------------------------------------------------------------
(* part_002: ForwardWebhookDLQ, subscribes webhook-forward-dlq.  It only logs.  *)
(* No step emits that topic (ForwardWebhook declares emits: []), so the bus     *)
(* never hands it a message and it is no disjunct of Next.                      *)

ForwardWebhookDLQ ==
    \E m \in Subscribed("webhook-forward-dlq") :
        /\ Hand(m)
        /\ response' = NoResponse
        /\ request' = NoRequest
        /\ UNCHANGED <<webhookFeed, posted, replayed, store, running, returned, now>>

----------------------------------------------------------------------------
(* forward-webhook.step.ts lines 146-218: ListWebhooks, GET /webhooks *)

\* what a caller may put in the query string; each parameter may also be absent
QueryValues ==
    [projectId |-> {"p1", "p2"},
     limit |-> {"0", "1", "2", "-1"},
     offset |-> {"0", "1", "2", "-1"}]

Queries ==
    UNION {{query \in [D -> UNION {QueryValues[k] : k \in DOMAIN QueryValues}] :
                \A k \in D : query[k] \in QueryValues[k]} :
           D \in SUBSET DOMAIN QueryValues}

NaN == [nan |-> TRUE]
Number(n) == [nan |-> FALSE, value |-> n]

\* parseInt of a query string: the integer it starts with, or NaN
ParseInt(s) ==
    CASE s = "-1" -> Number(0 - 1)
      [] s = "0" -> Number(0)
      [] s = "1" -> Number(1)
      [] s = "2" -> Number(2)
      [] OTHER -> NaN

\* lines 181-182: parseInt(req.queryParams[k] as string); an absent parameter
\* is undefined, which parseInt turns into NaN
ParseIntParam(query, k) == IF Has(query, k) THEN ParseInt(query[k]) ELSE NaN

\* x || d on a number: NaN and 0 are falsy
OrElse(x, d) == IF x.nan \/ x.value = 0 THEN d ELSE x.value

\* new Date(iso).getTime(): the clock reading toISOString printed
GetTime(iso) == CHOOSE t \in 0..9 : ToISOString(t) = iso

\* lines 196-199: Array.prototype.sort with (a, b) => time(b) - time(a).  The
\* sort is stable: records with the same receivedAt keep their order.
InsertByReceivedAt(sorted, wh) ==
    LET k == Cardinality({i \in 1..Len(sorted) :
                 GetTime(sorted[i].receivedAt) >= GetTime(wh.receivedAt)})
    IN  SubSeq(sorted, 1, k) \o <<wh>> \o SubSeq(sorted, k + 1, Len(sorted))

RECURSIVE SortByReceivedAt(_)
SortByReceivedAt(webhooks) ==
    IF webhooks = << >> THEN << >>
    ELSE InsertByReceivedAt(SortByReceivedAt(SubSeq(webhooks, 1, Len(webhooks) - 1)),
                            webhooks[Len(webhooks)])

\* Array.prototype.slice: a negative index counts from the end, and both
\* indices are clamped to the array
SliceIndex(i, len) ==
    IF i < 0 THEN (IF len + i < 0 THEN 0 ELSE len + i)
    ELSE IF i > len THEN len ELSE i

Slice(array, start, end) ==
    SubSeq(array, SliceIndex(start, Len(array)) + 1, SliceIndex(end, Len(array)))

\* a listing whose total counts the page
ListWebhooksResponseCountingPage(query, allWebhooks) ==
    LET limit == OrElse(ParseIntParam(query, "limit"), 50)
        offset == OrElse(ParseIntParam(query, "offset"), 0)
        Matches(wh) == wh.projectId = query.projectId
        filtered == IF Has(query, "projectId") /\ query.projectId # ""
                    THEN SelectSeq(allWebhooks, Matches) ELSE allWebhooks
        paginated == Slice(SortByReceivedAt(filtered), offset, offset + limit)
    IN  [handler |-> "ListWebhooks", status |-> 200,
         body |-> [webhooks |-> paginated, total |-> Len(paginated),
                   limit |-> limit, offset |-> offset]]

\* lines 180-217
ListWebhooksResponse(query, allWebhooks) ==
    LET limit == OrElse(ParseIntParam(query, "limit"), 50)
        offset == OrElse(ParseIntParam(query, "offset"), 0)
        Matches(wh) == wh.projectId = query.projectId
        filtered == IF Has(query, "projectId") /\ query.projectId # ""
                    THEN SelectSeq(allWebhooks, Matches) ELSE allWebhooks
        sorted == SortByReceivedAt(filtered)
        paginated == Slice(sorted, offset, offset + limit)
    IN  [handler |-> "ListWebhooks", status |-> 200,
         body |-> [webhooks |-> paginated, total |-> Len(filtered),
                   limit |-> limit, offset |-> offset]]

ListWebhooks ==
    /\ nevents < MaxEvents
    /\ nevents' = nevents + 1
    /\ \E query \in Queries, allWebhooks \in GetGroup :
        /\ request' = [handler |-> "ListWebhooks", query |-> query]
        /\ response' = ListWebhooksResponse(query, allWebhooks)
    /\ UNCHANGED <<webhookFeed, posted, replayed, store, bus, running, returned, now>>

----------------------------------------------------------------------------

Next ==
    \/ Tick
    \/ CaptureWebhook
    \/ ProcessWebhook
    \/ GetWebhook
    \/ ListFailedWebhooks
    \/ ReplayWebhook
    \/ RetryWebhookGet
    \/ RetryWebhookSet
    \/ RetryWebhookEmit
    \/ ForwardWebhookFetch
    \/ ForwardWebhookGet
    \/ ForwardWebhookSet

Spec == Init /\ [][Next]_vars

\* The bus hands over every message it holds and a suspended handler resumes;
\* nothing obliges a caller to send a request.
FairSpec ==
    /\ Spec
    /\ WF_vars(ProcessWebhook)
    /\ WF_vars(ForwardWebhookFetch)
    /\ WF_vars(ForwardWebhookGet)
    /\ WF_vars(ForwardWebhookSet)
    /\ WF_vars(RetryWebhookSet)
    /\ WF_vars(RetryWebhookEmit)

----------------------------------------------------------------------------
(* The ForwardWebhook step on its own: it subscribes to webhook-forward and *)
(* its input schema (lines 5-10) admits any webhookId, so it is also run on *)
(* messages whose id the state group does not hold.                         *)

DispatchedId == generateWebhookId(0, RandomUUID(0))

\* the state group when the message arrives: empty, or one processed record
DispatchStores ==
    {EmptyObject}
    \cup {DispatchedId :> ProcessedRecord([webhookId |-> DispatchedId,
                                           projectId |-> req.projectId,
                                           method |-> "POST",
                                           headers |-> req.headers,
                                           body |-> req.body,
                                           receivedAt |-> ToISOString(0)]) :
            req \in CaptureRequests}

\* the messages the input schema admits, over the ids, URLs and payloads above
ForwardInputs ==
    {[webhookId |-> id, targetUrl |-> u, headers |-> req.headers, body |-> req.body] :
        id \in {DispatchedId, UnknownId}, u \in URLs, req \in CaptureRequests}

DispatchInit ==
    /\ store \in DispatchStores
    /\ \E input \in ForwardInputs : bus = SetToBag({Message("webhook-forward", input)})
    /\ running = EmptyBag
    /\ returned = << >>
    /\ response = NoResponse
    /\ request = NoRequest
    /\ webhookFeed = EmptyObject
    /\ posted = EmptyBag
    /\ replayed = EmptyObject
    /\ now = 0
    /\ nevents = 0

DispatchNext ==
    \/ ForwardWebhookFetch
    \/ ForwardWebhookGet
    \/ ForwardWebhookSet

DispatchSpec == DispatchInit /\ [][DispatchNext]_vars

----------------------------------------------------------------------------
(* The listing on its own: GET /webhooks reads the state group and writes    *)
(* nothing, so it is followed over the stores that capture and processing    *)
(* build, with every query above.                                            *)

ListNext ==
    \/ Tick
    \/ CaptureWebhook
    \/ ProcessWebhook
    \/ ListWebhooks

ListSpec == Init /\ [][ListNext]_vars

----------------------------------------------------------------------------
(* The queue behind webhook-forward, as ideation/reference.md lines          *)
(* 1707-1711 describes it: a job whose handler throws is run again, 3        *)
(* attempts in all; a job whose handler returns is done.  ForwardWebhook     *)
(* catches whatever its try block throws (lines 63-80) and returns, so the   *)
(* queue never has a failed job to run again: it takes each message once.    *)

Take(m) ==
    /\ bus' = bus (-) SetToBag({m})
    /\ UNCHANGED nevents

QueuedForwardWebhookFetch ==
    \E m \in Subscribed("webhook-forward") : Take(m) /\ ForwardWebhookPost(m)

QueueNext ==
    \/ QueuedForwardWebhookFetch
    \/ ForwardWebhookGet
    \/ ForwardWebhookSet

QueueSpec == DispatchInit /\ [][QueueNext]_vars

----------------------------------------------------------------------------
(* Vocabulary of the properties *)

\* every id CaptureWebhook can return within the bound
AllIds ==
    {generateWebhookId(t, RandomUUID(n)) : t \in 0..MaxEvents, n \in 0..MaxEvents}

\* this step is the state.set of the delivery attempt x
AttemptWrites(x) ==
    /\ x \in Suspended("ForwardWebhook", "set")
    /\ running' = Resume(x)

\* this step is the state.get of the delivery attempt x, which goes on as y
AttemptReads(x, y) ==
    /\ x \in Suspended("ForwardWebhook", "get")
    /\ y \in BagToSet(running')
    /\ y.handler = "ForwardWebhook" /\ y.pc = "set"
    /\ running' = Resume(x) (+) SetToBag({y})

\* this step is the state.set of the manual retry x
RetryWrites(x) ==
    /\ x \in Suspended("RetryWebhook", "set")
    /\ running' = Resume(x) (+) SetToBag({[x EXCEPT !.pc = "emit"]})

\* this step hands the webhook-captured message m to ProcessWebhook
Processes(m) ==
    /\ m \in Subscribed("webhook-captured")
    /\ running' = running /\ returned' = returned /\ now' = now
    /\ response' = NoResponse
    /\ \/ bus' = bus (-) SetToBag({m}) /\ nevents' = nevents
       \/ bus' = bus /\ nevents' = nevents + 1

\* this step is a call of CaptureWebhook
Captures == Len(returned') = Len(returned) + 1

Is2xx(r) == ~r.threw /\ r.status \in 200..299
Is3xx(r) == ~r.threw /\ r.status \in 300..399
Is4xx(r) == ~r.threw /\ r.status \in 400..499
Is5xx(r) == ~r.threw /\ r.status \in 500..599

SameField(a, b, k) == (Has(a, k) <=> Has(b, k)) /\ (Has(a, k) => a[k] = b[k])

----------------------------------------------------------------------------
(* C1: every stored record's status is one of received, forwarded,        *)
(* retrying, dlq, failed; and a record whose status is forwarded or dlq   *)
(* keeps that status in every step except the store write of a ManualRetry *)
(* or of a delivery attempt for that same id.                              *)
C1_StatusStaysUntilReplayOrRetry ==
    [][\A id \in DOMAIN store :
        /\ id \in DOMAIN store'
        /\ store'[id].status \in WebhookStatus
        /\ (store[id].status \in {"forwarded", "dlq"}
            /\ store'[id].status # store[id].status)
           => \/ \E x \in BagToSet(running) :
                    x.handler = "ForwardWebhook" /\ AttemptWrites(x)
                    /\ x.input.webhookId = id
              \/ \E x \in BagToSet(running) :
                    x.handler = "RetryWebhook" /\ RetryWrites(x) /\ x.id = id]_vars

(* C2: no step lowers a record's retryCount (an absent retryCount is 0).   *)
C2_RetryCountNeverDecreases ==
    [][\A id \in DOMAIN store :
        /\ id \in DOMAIN store'
        /\ RetryCountOf(store'[id]) >= RetryCountOf(store[id])]_vars

C4_ClientErrorDeadLetters ==
    [][\A x \in BagToSet(running) :
        (x.handler = "ForwardWebhook" /\ AttemptWrites(x) /\ Is4xx(x.fetched))
        => LET id == x.input.webhookId
           IN  /\ store'[id].status = "dlq"
               /\ Has(store'[id], "errorMessage")
               /\ store'[id].errorMessage = HttpErrorMessage(x.fetched)
               /\ Has(store'[id], "dlqAt")
               /\ Has(store'[id], "forwardedAt")
               /\ store'[id].targetUrl = x.input.targetUrl
               /\ \E m \in BagToSet(bus') :
                    m.topic = "webhook-forward-dlq" /\ m.data.webhookId = id]_vars

(* C5: a delivery attempt on an existing record whose POST gets a 5xx     *)
(* response, or throws, writes status = retrying, retryCount one more than *)
(* it read, lastRetryAt, errorMessage and targetUrl = the URL used.        *)
C5_TransientFailureRetries ==
    [][/\ \A x \in BagToSet(running), y \in BagToSet(running') :
            (AttemptReads(x, y) /\ (x.fetched.threw \/ Is5xx(x.fetched)))
            => /\ y.webhook.status = "retrying"
               /\ RetryCountOf(y.webhook)
                    = RetryCountOf(store[x.input.webhookId]) + 1
               /\ Has(y.webhook, "lastRetryAt")
               /\ Has(y.webhook, "errorMessage")
               /\ y.webhook.targetUrl = x.input.targetUrl
       /\ \A x \in BagToSet(running) :
            (x.handler = "ForwardWebhook" /\ AttemptWrites(x)
             /\ (x.fetched.threw \/ Is5xx(x.fetched)))
            => /\ store'[x.input.webhookId] = x.webhook
               /\ store'[x.input.webhookId].status = "retrying"]_vars

(* C6: under fair processing of messages and of suspended handlers, a     *)
(* record whose status is retrying eventually has a terminal status        *)
(* (forwarded, dlq or failed).                                             *)
Terminal == {"forwarded", "dlq", "failed"}

\* Only RetryWebhook writes retrying, and it needs a targetUrl, which only a
\* delivery attempt writes: the record's capture, a replay and a manual
\* retry come after the t ticks and n captures that fix its id.
RetriableIds ==
    {generateWebhookId(t, RandomUUID(n)) :
        <<t, n>> \in {tn \in (0..MaxEvents) \X (0..MaxEvents) :
                        tn[1] + tn[2] + 3 <= MaxEvents}}

C6_RetryingReachesTerminal ==
    /\ [](\A id \in DOMAIN store :
            store[id].status = "retrying" => id \in RetriableIds)
    /\ \A id \in RetriableIds :
            (Exists(id) /\ store[id].status = "retrying")
            ~> (Exists(id) /\ store[id].status \in Terminal)

\* a manually retried record whose attempt has failed and written its outcome
C6_Witness ==
    \E id \in DOMAIN store :
        /\ store[id].status = "failed"
        /\ Has(store[id], "lastRetryAt")
        /\ RetryCountOf(store[id]) = 1
        /\ Has(store[id], "errorMessage")
        /\ running = EmptyBag
        /\ Subscribed("webhook-forward") = {}

(* C7: under fair processing, once a Replay of an existing record to a URL *)
(* whose target answers 200 has been accepted, the record eventually has   *)
(* status forwarded, forwardedAt set and targetUrl = that URL (whatever    *)
(* other requests are issued meanwhile).                                   *)
\* a record can be replayed once its capture and the replay have followed
\* the t ticks and n captures that fix its id
ReplayableIds ==
    {generateWebhookId(t, RandomUUID(n)) :
        <<t, n>> \in {tn \in (0..MaxEvents) \X (0..MaxEvents) :
                        tn[1] + tn[2] + 2 <= MaxEvents}}

ReplayAccepted(id) ==
    /\ response.handler = "ReplayWebhook"
    /\ Has(response, "status") /\ response.status = 200
    /\ response.body = [webhookId |-> id, status |-> "accepted"]

ForwardPending(id, u) ==
    \E m \in Subscribed("webhook-forward") :
        m.data.webhookId = id /\ m.data.targetUrl = u

ForwardedTo(id, u) ==
    /\ Exists(id)
    /\ store[id].status = "forwarded"
    /\ Has(store[id], "forwardedAt")
    /\ Has(store[id], "targetUrl") /\ store[id].targetUrl = u

C7_AcceptedReplayForwards ==
    /\ [](\A id \in RequestIds : ReplayAccepted(id) => id \in ReplayableIds)
    /\ \A id \in ReplayableIds :
            (ReplayAccepted(id) /\ ForwardPending(id, OkUrl))
            ~> ForwardedTo(id, OkUrl)

\* the first replay of a record, to the URL that answers 200, has been
\* accepted and its attempt has written the outcome
C7_Witness ==
    \E id \in DOMAIN store :
        /\ ForwardedTo(id, OkUrl)
        /\ ~Has(store[id], "retryCount")
        /\ ~Has(store[id], "errorMessage")
        /\ running = EmptyBag /\ bus = EmptyBag
        /\ nevents = 2

(* C8: every CaptureWebhook call returns a webhookId distinct from all    *)
(* ids returned before; once the webhook-captured message of a returned id *)
(* has been processed, a record exists under exactly that id, with         *)
(* record.id = the id, and GET /webhooks/:id answers 200 with that record. *)
ReturnedIds == {returned[i] : i \in DOMAIN returned}

CapturePending(id) ==
    \E m \in Subscribed("webhook-captured") : m.data.webhookId = id

C8_ReturnedIdIsUniqueAndRetrievable ==
    /\ [](/\ \A i, j \in DOMAIN returned : i # j => returned[i] # returned[j]
          /\ DOMAIN store \subseteq ReturnedIds
          /\ \A id \in ReturnedIds :
                /\ ~CapturePending(id) => Exists(id)
                /\ Exists(id)
                   => /\ store[id].id = id
                      /\ GetWebhookResponse(id).status = 200
                      /\ GetWebhookResponse(id).body = store[id]
                      /\ GetWebhookResponse(id).body.id = id)
    /\ [][/\ Captures
             => /\ returned'[Len(returned')] \notin ReturnedIds
                /\ response'.body.webhookId = returned'[Len(returned')]
                /\ \E m \in BagToSet(bus') :
                      /\ m.topic = "webhook-captured"
                      /\ m.data.webhookId = returned'[Len(returned')]
          /\ \A id \in ReturnedIds :
                (CapturePending(id) /\ ~CapturePending(id)')
                => /\ id \in DOMAIN store'
                   /\ store'[id].id = id]_vars

\* two captures have been processed and a GET of the second id has answered
C8_Witness ==
    /\ Len(returned) = 2
    /\ \A id \in ReturnedIds : Exists(id) /\ ~CapturePending(id)
    /\ response.handler = "GetWebhook"
    /\ response.status = 200
    /\ response.body.id = returned[2]

(* C9: a CaptureWebhook call leaves the store as it is, emits exactly one  *)
(* webhook-captured message and answers 200 {webhookId, status: received}; *)
(* the step that processes a webhook-captured message stores, under the    *)
(* message's webhookId, a record with status received, no targetUrl, and   *)
(* projectId, method, headers, body and receivedAt equal to the captured   *)
(* values, and touches no other record.                                    *)
CapturedFields == {"projectId", "method", "headers", "body", "receivedAt"}

C9_CaptureEmitsAndProcessStores ==
    [][/\ Captures
          => /\ store' = store
             /\ \E req \in CaptureRequests, m \in BagToSet(bus') :
                   /\ bus' = bus (+) SetToBag({m})
                   /\ m.topic = "webhook-captured"
                   /\ DOMAIN m.data = CapturedFields \cup {"webhookId"}
                   /\ m.data.webhookId = returned'[Len(returned')]
                   /\ m.data.projectId = req.projectId
                   /\ m.data.method = "POST"
                   /\ m.data.headers = req.headers
                   /\ m.data.body = req.body
                   /\ m.data.receivedAt = ToISOString(now)
                   /\ response' = [handler |-> "CaptureWebhook", status |-> 200,
                                   body |-> [webhookId |-> m.data.webhookId,
                                             status |-> "received"]]
       /\ (\E m \in BagToSet(bus) : Processes(m))
          => \E m \in BagToSet(bus) :
                LET id == m.data.webhookId
                IN  /\ Processes(m)
                    /\ DOMAIN store' = DOMAIN store \cup {id}
                    /\ \A k \in DOMAIN store \ {id} : store'[k] = store[k]
                    /\ DOMAIN store'[id] = CapturedFields \cup {"id", "status"}
                    /\ store'[id].id = id
                    /\ store'[id].status = "received"
                    /\ ~Has(store'[id], "targetUrl")
                    /\ \A k \in CapturedFields : store'[id][k] = m.data[k]]_vars

\* the capture of scenario A has been answered and then processed: the
\* record is stored as captured and its message is consumed
C9_Witness ==
    /\ Len(returned) = 1
    /\ bus = EmptyBag /\ running = EmptyBag
    /\ nevents = 1
    /\ Exists(returned[1])
    /\ store[returned[1]].status = "received"
    /\ store[returned[1]].projectId = "p1"
    /\ store[returned[1]].body = [a |-> 1]
    /\ ~Has(store[returned[1]], "targetUrl")

(* C10: once a record exists, no step removes it or changes its id,       *)
(* projectId, method, headers, body or receivedAt.                         *)
WriteOnceFields == {"id", "projectId", "method", "headers", "body", "receivedAt"}

C10_CapturedFieldsAreWriteOnce ==
    [][\A id \in DOMAIN store :
        /\ id \in DOMAIN store'
        /\ \A k \in WriteOnceFields :
              /\ Has(store[id], k)
              /\ Has(store'[id], k)
              /\ store'[id][k] = store[id][k]]_vars

\* a record that a replay's attempt and a manual retry have both rewritten
\* after a later clock reading than its capture's
C10_Witness ==
    \E id \in DOMAIN store :
        /\ Has(store[id], "lastRetryAt")
        /\ store[id].lastRetryAt # store[id].receivedAt
        /\ Has(store[id], "forwardedAt")
        /\ store[id].status = "retrying"

\* this step is a call of ReplayWebhook
Replays == request'.handler = "ReplayWebhook"

(* C11 as claimed: a Replay for an id that has no record answers 404       *)
(* {error: "Webhook not found"}, emits nothing and leaves the store as it  *)
(* is.                                                                     *)
C11_ReplayOfUnknownIdIs404 ==
    [][(Replays /\ ~Exists(request'.id))
       => /\ Has(response', "status") /\ response'.status = 404
          /\ response'.body = [error |-> "Webhook not found"]
          /\ bus' = bus
          /\ store' = store]_vars

(* C11 amended: a Replay for an id that has no record emits nothing and    *)
(* leaves the store as it is; it answers 404 {error: "Webhook not found"}  *)
(* when its targetUrl is a URL, and fails on the body's validation (before *)
(* the record is looked up) when it is not.                                *)
C11_ReplayOfUnknownIdWithUrlIs404 ==
    [][(Replays /\ ~Exists(request'.id))
       => /\ bus' = bus
          /\ store' = store
          /\ running' = running
          /\ IF IsUrl(request'.targetUrl)
             THEN /\ Has(response', "status") /\ response'.status = 404
                  /\ response'.body = [error |-> "Webhook not found"]
             ELSE /\ ~Has(response', "status")
                  /\ response'.threw = "ZodError"]_vars

\* a replay of a returned id whose capture is not processed yet was answered 404
C11_Witness ==
    /\ request.handler = "ReplayWebhook"
    /\ request.id \in ReturnedIds
    /\ request.targetUrl = OkUrl
    /\ ~Exists(request.id)
    /\ CapturePending(request.id)
    /\ response.status = 404
    /\ Subscribed("webhook-forward") = {}

(* C12: a Replay of an existing record with a targetUrl that is a URL      *)
(* leaves the store as it is, emits exactly one webhook-forward message,   *)
(* which carries the request's targetUrl and the record's stored headers   *)
(* and body, and answers 200 {webhookId, status: accepted}.                *)
C12_AcceptedReplayOnlyEmits ==
    [][(Replays /\ Exists(request'.id) /\ IsUrl(request'.targetUrl))
       => LET id == request'.id
          IN  /\ store' = store
              /\ running' = running
              /\ \E m \in BagToSet(bus') :
                    /\ bus' = bus (+) SetToBag({m})
                    /\ m.topic = "webhook-forward"
                    /\ DOMAIN m.data = {"webhookId", "targetUrl", "headers", "body"}
                    /\ m.data.webhookId = id
                    /\ m.data.targetUrl = request'.targetUrl
                    /\ m.data.headers = store[id].headers
                    /\ m.data.body = store[id].body
              /\ response' = [handler |-> "ReplayWebhook", status |-> 200,
                              body |-> [webhookId |-> id, status |-> "accepted"]]]_vars

\* a forwarded record has been replayed to another URL: the replay is
\* accepted, its message is pending and the record is as the first attempt left it
C12_Witness ==
    /\ request.handler = "ReplayWebhook"
    /\ request.targetUrl = FlakyUrl
    /\ Exists(request.id)
    /\ store[request.id].status = "forwarded"
    /\ store[request.id].targetUrl = OkUrl
    /\ response.status = 200
    /\ ForwardPending(request.id, FlakyUrl)
    /\ running = EmptyBag

\* this step is the arrival of a RetryWebhook request for id: it is refused
\* at once, or the handler goes on with the rewritten copy
RetryCalled(id) ==
    /\ nevents' = nevents + 1
    /\ \/ request' = [handler |-> "RetryWebhook", id |-> id]
       \/ \E x \in BagToSet(running') :
            /\ x.handler = "RetryWebhook" /\ x.pc = "set" /\ x.id = id
            /\ running' = running (+) SetToBag({x})

(* C13: a ManualRetry for an id without a record answers 404, and one for  *)
(* a record without a targetUrl answers 400; in both cases the store is    *)
(* unchanged, nothing is emitted and the handler has ended.                *)
C13_RetryRefusals ==
    [][\A id \in RequestIds :
        (RetryCalled(id) /\ (~Exists(id) \/ ~Has(store[id], "targetUrl")))
        => /\ request' = [handler |-> "RetryWebhook", id |-> id]
           /\ Has(response', "status")
           /\ response'.status = IF Exists(id) THEN 400 ELSE 404
           /\ Has(response'.body, "error")
           /\ ~Exists(id) => response'.body.error = "Webhook not found"
           /\ store' = store
           /\ bus' = bus
           /\ running' = running]_vars

\* a manual retry of a stored record that was never forwarded was answered 400
C13_Witness ==
    /\ request.handler = "RetryWebhook"
    /\ Exists(request.id)
    /\ store[request.id].status = "received"
    /\ ~Has(store[request.id], "targetUrl")
    /\ response.status = 400
    /\ bus = EmptyBag /\ running = EmptyBag

\* this step is the emit (and the answer) of the manual retry x
RetryEmits(x) ==
    /\ x \in Suspended("RetryWebhook", "emit")
    /\ running' = Resume(x)

\* the webhook-forward messages this step puts on the bus
NewForwardMessages ==
    {m \in BagToSet(bus') :
        m.topic = "webhook-forward" /\ CopiesIn(m, bus') > CopiesIn(m, bus)}

(* C14: an accepted ManualRetry rewrites the record it read to status      *)
(* retrying, retryCount one more than read and lastRetryAt = the time of   *)
(* the request, leaving the other fields; it persists that record without  *)
(* emitting; only a retry that has persisted goes on to emit, and then it  *)
(* emits exactly one webhook-forward message carrying the persisted        *)
(* record's targetUrl, headers and body and answers 200.                   *)
C14_RetryPersistsThenEmits ==
    [][/\ \A id \in RequestIds :
            (RetryCalled(id) /\ Exists(id) /\ Has(store[id], "targetUrl"))
            => /\ store' = store /\ bus' = bus
               /\ \E x \in BagToSet(running') :
                    /\ running' = running (+) SetToBag({x})
                    /\ x.handler = "RetryWebhook" /\ x.pc = "set" /\ x.id = id
                    /\ DOMAIN x.webhook
                         = DOMAIN store[id] \cup {"status", "retryCount", "lastRetryAt"}
                    /\ x.webhook.status = "retrying"
                    /\ x.webhook.retryCount = RetryCountOf(store[id]) + 1
                    /\ x.webhook.lastRetryAt = ToISOString(now)
                    /\ \A k \in DOMAIN store[id] \ {"status", "retryCount", "lastRetryAt"} :
                          x.webhook[k] = store[id][k]
       /\ \A x \in BagToSet(running) :
            (x.handler = "RetryWebhook" /\ RetryWrites(x))
            => /\ store' = Put(store, x.id, x.webhook)
               /\ store'[x.id].status = "retrying"
               /\ bus' = bus
       /\ \A x \in BagToSet(running') :
            (x.handler = "RetryWebhook" /\ x.pc = "emit"
             /\ CopiesIn(x, running') > CopiesIn(x, running))
            => \E y \in BagToSet(running) :
                  /\ y.handler = "RetryWebhook" /\ RetryWrites(y)
                  /\ x = [y EXCEPT !.pc = "emit"]
                  /\ store'[x.id] = x.webhook
       /\ \A x \in BagToSet(running) :
            (x.handler = "RetryWebhook" /\ RetryEmits(x))
            => /\ store' = store
               /\ bus' = bus (+) SetToBag({Message("webhook-forward",
                                             [webhookId |-> x.id,
                                              targetUrl |-> x.webhook.targetUrl,
                                              headers |-> x.webhook.headers,
                                              body |-> x.webhook.body])})
               /\ response'.status = 200
               /\ response'.body.webhookId = x.id
       /\ NewForwardMessages # {}
          => /\ Cardinality(NewForwardMessages) = 1
             /\ \/ Replays
                \/ \E x \in BagToSet(running) :
                      x.handler = "RetryWebhook" /\ RetryEmits(x)]_vars

\* a manual retry has been answered 200: the record is stored as retrying
\* with its first retry counted, and the attempt's message is pending
C14_Witness ==
    /\ request.handler = "RetryWebhook"
    /\ response.status = 200
    /\ Exists(request.id)
    /\ store[request.id].status = "retrying"
    /\ store[request.id].retryCount = 1
    /\ Has(store[request.id], "lastRetryAt")
    /\ ForwardPending(request.id, store[request.id].targetUrl)
    /\ running = EmptyBag

\* the delivery attempts that this step starts: each has just made its POST
StartedAttempts ==
    {x \in BagToSet(running') :
        /\ x.handler = "ForwardWebhook" /\ x.pc = "get"
        /\ CopiesIn(x, running') > CopiesIn(x, running)}

\* what the target reads out of a JSON text
JSONParse(text) ==
    IF text = "{\"a\":1}" THEN [a |-> 1]
    ELSE IF text = "{\"event\":\"push\"}" THEN [event |-> "push"]
    ELSE [unparsed |-> text]

(* C15: every POST a delivery attempt makes for a webhook id, whether a    *)
(* Replay or a ManualRetry dispatched it, goes to the dispatched targetUrl *)
(* with the JSON text of the body captured for id; its headers are empty   *)
(* when no content-type was captured, and otherwise hold the one entry     *)
(* Content-Type = the captured content-type (the first value of a          *)
(* multi-valued one).                                                      *)
C15_PostCarriesBodyAndContentTypeOnly ==
    [][\A x \in StartedAttempts :
        LET id == x.input.webhookId
        IN  /\ Exists(id)
            /\ x.sent.method = "POST"
            /\ x.sent.url = x.input.targetUrl
            /\ JSONParse(x.sent.body) = store[id].body
            /\ IF Has(store[id].headers, "content-type")
               THEN /\ DOMAIN x.sent.headers = {"Content-Type"}
                    /\ x.sent.headers["Content-Type"]
                         = IF store[id].headers["content-type"].isArray
                           THEN store[id].headers["content-type"].values[1]
                           ELSE store[id].headers["content-type"].value
               ELSE DOMAIN x.sent.headers = {}]_vars

\* after a capture, a replay and a manual retry, nothing else, the attempt
\* that the manual retry dispatched has posted the record captured with a
\* two-valued content-type and an x-signature header
C15_Witness ==
    \E x \in Suspended("ForwardWebhook", "get") :
        /\ Exists(x.input.webhookId)
        /\ store[x.input.webhookId].status = "retrying"
        /\ Has(store[x.input.webhookId].headers, "x-signature")
        /\ x.sent.headers["Content-Type"] = "text/plain"
        /\ x.sent.body = "{\"event\":\"push\"}"
        /\ nevents = 3
        /\ bus = EmptyBag
        /\ running = SetToBag({x})

(* C16: every webhook-forward message on the bus, and every delivery       *)
(* attempt under way, has a targetUrl that is present, not empty and a URL *)
(* a caller gave.                                                          *)
C16_ForwardAlwaysHasTargetUrl ==
    /\ \A m \in Subscribed("webhook-forward") :
          /\ Has(m.data, "targetUrl")
          /\ m.data.targetUrl # ""
          /\ m.data.targetUrl \in URLs
    /\ \A x \in BagToSet(running) :
          x.handler = "ForwardWebhook"
          => /\ Has(x.input, "targetUrl")
             /\ x.input.targetUrl # ""
             /\ x.input.targetUrl \in URLs
             /\ x.sent.url = x.input.targetUrl

\* a manual retry has dispatched the stored target while an earlier
\* dispatch to the same record is still being attempted
C16_Witness ==
    /\ request.handler = "RetryWebhook"
    /\ response.status = 200
    /\ \E m \in Subscribed("webhook-forward") :
          /\ m.data.webhookId = request.id
          /\ m.data.targetUrl = FlakyUrl
    /\ \E x \in BagToSet(running) :
          /\ x.handler = "ForwardWebhook"
          /\ x.input.webhookId = request.id

Pushed(groupId, id) ==
    /\ Has(webhookFeed, groupId)
    /\ Has(webhookFeed[groupId], id)

(* C17: once every message is handled and every handler has ended, each   *)
(* stored record has had a status projection pushed to the global channel  *)
(* and to its project's channel, and a projection in the stream is one of  *)
(* a record that is stored (the push comes after the write).               *)
C17_StatusProjectionsArePushed ==
    /\ (bus = EmptyBag /\ running = EmptyBag)
       => \A id \in DOMAIN store :
            /\ Pushed("global", id)
            /\ Pushed(store[id].projectId, id)
            /\ webhookFeed["global"][id].id = id
            /\ webhookFeed["global"][id].status \in WebhookStatus
            /\ webhookFeed[store[id].projectId][id] = webhookFeed["global"][id]
    /\ \A g \in DOMAIN webhookFeed : \A id \in DOMAIN webhookFeed[g] : Exists(id)

\* this step is the state.get of the delivery attempt x
AttemptLooksUp(x) ==
    /\ x \in Suspended("ForwardWebhook", "get")
    /\ CopiesIn(x, running') < CopiesIn(x, running)

(* C18: a delivery attempt for a webhookId that has no record leaves the   *)
(* store as it is at its POST and at its lookup, and ends at the lookup:   *)
(* it never comes to a state.set, so no record appears under that id.      *)
C18_AttemptWithoutRecordWritesNothing ==
    /\ [](/\ ~Exists(UnknownId)
          /\ \A x \in Suspended("ForwardWebhook", "set") : Exists(x.input.webhookId))
    /\ [][/\ \A x \in StartedAttempts :
                ~Exists(x.input.webhookId) => store' = store
          /\ \A x \in BagToSet(running) :
                (AttemptLooksUp(x) /\ ~Exists(x.input.webhookId))
                => /\ store' = store
                   /\ running' = Resume(x)
                   /\ bus' = bus]_vars

\* an attempt for a message that names no stored record has posted, looked
\* the record up and ended, and the state group is still empty
C18_Witness ==
    /\ store = EmptyObject
    /\ bus = EmptyBag
    /\ running = EmptyBag

(* C19: every change of the status of a stored record is the write of a    *)
(* delivery attempt for its id, to forwarded, retrying or dlq (or failed,  *)
(* the older name of dlq), or the write of a manual retry for its id, to   *)
(* retrying; no step changes it to received.                               *)
C19_StatusFollowsStateMachine ==
    [][\A id \in DOMAIN store :
        (id \in DOMAIN store' /\ store'[id].status # store[id].status)
        => /\ store'[id].status # "received"
           /\ \/ /\ \E x \in BagToSet(running) :
                       /\ x.handler = "ForwardWebhook" /\ AttemptWrites(x)
                       /\ x.input.webhookId = id
                 /\ store'[id].status \in {"forwarded", "retrying", "dlq", "failed"}
              \/ /\ \E x \in BagToSet(running) :
                       x.handler = "RetryWebhook" /\ RetryWrites(x) /\ x.id = id
                 /\ store'[id].status = "retrying"]_vars

\* this step is a call of ListFailedWebhooks
ListsFailed == request'.handler = "ListFailedWebhooks"

FailedIds == {id \in DOMAIN store : store[id].status \in {"failed", "retrying", "dlq"}}

----------------------------------------------------------------------------
(* GET /webhooks *)

\* the decimal numbers a caller may write in a query string
Decimal == ("-1" :> (0 - 1)) @@ ("0" :> 0) @@ ("1" :> 1) @@ ("2" :> 2)

\* the limit and the offset a query asks for, with the defaults for absent ones
AskedLimit(query) == IF Has(query, "limit") THEN Decimal[query.limit] ELSE 50
AskedOffset(query) == IF Has(query, "offset") THEN Decimal[query.offset] ELSE 0

\* the ids of the stored records a query selects
Selected(group, query) ==
    {id \in DOMAIN group : Has(query, "projectId") => group[id].projectId = query.projectId}

\* of the selected records, how many were received later than wh / no earlier
ReceivedAfter(group, query, wh) ==
    Cardinality({id \in Selected(group, query) :
        GetTime(group[id].receivedAt) > GetTime(wh.receivedAt)})
ReceivedNotBefore(group, query, wh) ==
    Cardinality({id \in Selected(group, query) :
        GetTime(group[id].receivedAt) >= GetTime(wh.receivedAt)})

\* C21: for a limit > 0 and an offset >= 0 (50 and 0 when absent) GET /webhooks
\* answers with the elements [offset, offset + limit) of the stored records of
\* the given projectId (all of them when none is given) in descending order of
\* receivedAt, and total is the number of records selected, not the page's size.
C21_ListReturnsPageOfFiltered ==
    [][request'.handler = "ListWebhooks" =>
        LET query == request'.query
            limit == AskedLimit(query)
            offset == AskedOffset(query)
            size == Cardinality(Selected(store', query))
            page == response'.body.webhooks
        IN  (limit > 0 /\ offset >= 0) =>
              /\ response'.status = 200
              /\ response'.body.total = size
              /\ Len(page) = IF size <= offset THEN 0
                             ELSE IF size - offset < limit THEN size - offset
                             ELSE limit
              /\ \A i \in 1..Len(page) :
                    /\ page[i].id \in Selected(store', query)
                    /\ page[i] = store'[page[i].id]
                    /\ ReceivedAfter(store', query, page[i]) <= offset + i - 1
                    /\ offset + i - 1 < ReceivedNotBefore(store', query, page[i])
              /\ \A i, j \in 1..Len(page) :
                    i < j => /\ page[i].id # page[j].id
                             /\ GetTime(page[i].receivedAt) >= GetTime(page[j].receivedAt)
    ]_vars

\* the second page of one record, out of the two records of project p1, while
\* the store also holds a record of project p2
C21_Witness ==
    /\ request.handler = "ListWebhooks"
    /\ request.query = [projectId |-> "p1", limit |-> "1", offset |-> "1"]
    /\ response.body.total = 2
    /\ Len(response.body.webhooks) = 1
    /\ Cardinality(DOMAIN store) = 3

----------------------------------------------------------------------------
(* GET /webhooks/:id *)

\* what a lookup of id in the state group `group` is to answer
LookupAnswer(group, id) ==
    IF id \in DOMAIN group
    THEN [handler |-> "GetWebhook", status |-> 200, body |-> group[id]]
    ELSE [handler |-> "GetWebhook", status |-> 404,
          body |-> [error |-> "Webhook not found"]]

\* C22: GET /webhooks/:id is read-only: a call leaves the store (and the bus,
\* the suspended handlers and the stream) as they were; its response is
\* determined by the id and the store, so a call that directly follows a call
\* for the same id, and any later call made on an unchanged store, returns the
\* identical response.
C22_GetIsReadOnlyAndRepeatable ==
    [][request'.handler = "GetWebhook" =>
        /\ store' = store
        /\ bus' = bus
        /\ running' = running
        /\ webhookFeed' = webhookFeed
        /\ returned' = returned
        /\ response' = LookupAnswer(store, request'.id)
        /\ (request.handler = "GetWebhook" /\ request.id = request'.id)
              => response' = response
    ]_vars

\* a stored record looked up twice: the bound leaves room for the capture and
\* two further requests, and the record is as processing wrote it
C22_Witness ==
    /\ request.handler = "GetWebhook"
    /\ response.status = 200
    /\ response.body = store[request.id]
    /\ Len(returned) = 1
    /\ nevents = 3
    /\ bus = EmptyBag
    /\ now = 0

\* C23: GET /webhooks/:id for an id that has no record in the store answers
\* 404 {error: "Webhook not found"}, also when Capture has already returned
\* the id and its webhook-captured message is still waiting to be processed.
C23_GetOfMissingRecordIs404 ==
    [][(request'.handler = "GetWebhook" /\ request'.id \notin DOMAIN store) =>
        /\ response'.status = 404
        /\ response'.body = [error |-> "Webhook not found"]
    ]_vars

\* the id was returned by Capture, its message is on the bus, the lookup is 404
C23_Witness ==
    /\ request.handler = "GetWebhook"
    /\ request.id \in ReturnedIds
    /\ CapturePending(request.id)
    /\ ~Exists(request.id)
    /\ response.status = 404

----------------------------------------------------------------------------
(* The store only grows *)

\* C24: no step removes a record: an id that has a record has one in every
\* later state.
C24_RecordsAreNeverRemoved ==
    [][\A id \in DOMAIN store : id \in DOMAIN store']_vars

\* a record that processing, a manual retry's write and a failed attempt's
\* write have all gone over is still there
C24_Witness ==
    \E id \in DOMAIN store :
        /\ store[id].status = "failed"
        /\ Has(store[id], "lastRetryAt")
        /\ Has(store[id], "errorMessage")
        /\ running = EmptyBag

----------------------------------------------------------------------------
(* Lost updates between a delivery attempt and a manual retry *)

\* a manual retry has persisted its rewrite of the record and the record in
\* the store no longer shows it
RetryLost(y) ==
    /\ y \in Suspended("RetryWebhook", "emit")
    /\ Exists(y.id)
    /\ RetryCountOf(store[y.id]) < y.webhook.retryCount
    /\ store[y.id].status # "retrying"

\* C25: a delivery attempt writes the copy it read, with the outcome, over
\* whatever the store holds by then.  So when a manual retry for the same id
\* has written retryCount + 1 and status retrying between the attempt's read
\* and its write, the attempt's write takes both back: the interleaving in
\* which the retry's increment and status are lost is reachable.
C25_StaleAttemptWriteLosesRetry ==
    [][\A x \in Suspended("ForwardWebhook", "set") :
          LET id == x.input.webhookId
          IN  (/\ AttemptWrites(x)
               /\ store[id].status = "retrying"
               /\ RetryCountOf(x.webhook) < RetryCountOf(store[id]))
              => /\ store'[id] = x.webhook
                 /\ RetryCountOf(store'[id]) < RetryCountOf(store[id])
                 /\ store'[id].status # "retrying"
    ]_vars

\* the retry has persisted retryCount 1 and is about to emit; the record now
\* carries the outcome of an attempt that read it before, and no retryCount
C25_Witness ==
    \E y \in Suspended("RetryWebhook", "emit") :
        /\ RetryLost(y)
        /\ y.webhook.retryCount = 1
        /\ store[y.id].status \in {"failed", "forwarded"}
        /\ Has(store[y.id], "forwardedAt")
        /\ ~Has(store[y.id], "retryCount")
        /\ ~Has(store[y.id], "lastRetryAt")

----------------------------------------------------------------------------
(* Delivery attempts in flight *)

\* the delivery attempts in flight for id: dispatched (a webhook-forward
\* message on the bus) or executing (the handler has not yet ended)
InFlight(id) ==
    LET dispatched == {m \in Subscribed("webhook-forward") : m.data.webhookId = id}
        executing == {x \in BagToSet(running) :
                         x.handler = "ForwardWebhook" /\ x.input.webhookId = id}
        RECURSIVE Copies(_, _)
        Copies(B, S) == IF S = {} THEN 0
                        ELSE LET e == CHOOSE e \in S : TRUE
                             IN  CopiesIn(e, B) + Copies(B, S \ {e})
    IN  Copies(bus, dispatched) + Copies(running, executing)

\* C26: at every instant at most one delivery attempt is in flight per webhook
\* id, whatever Replay and ManualRetry requests are issued for it.
C26_OneAttemptInFlightPerId ==
    \A id \in ReturnedIds : InFlight(id) <= 1

----------------------------------------------------------------------------
(* Redelivered captures *)

OutcomeFields ==
    {"status", "targetUrl", "forwardedAt", "errorMessage",
     "retryCount", "lastRetryAt", "dlqAt"}

\* C27: when a webhook-captured message is handed to ProcessWebhook for an id
\* that already has a record, the record's status, targetUrl, forwardedAt,
\* errorMessage, retryCount, lastRetryAt and dlqAt stay as they are.
C27_RedeliveredCaptureKeepsOutcome ==
    [][\A id \in DOMAIN store :
          (\E m \in Subscribed("webhook-captured") :
                Processes(m) /\ m.data.webhookId = id)
          => \A k \in OutcomeFields : SameField(store[id], store'[id], k)]_vars

----------------------------------------------------------------------------
(* Failed delivery attempts *)

\* the POST of an attempt failed: fetch threw, or the response is not ok
AttemptFailed(fetched) == fetched.threw \/ ~ResponseOk(fetched)

FailureStatuses == {"retrying", "dlq", "failed"}

\* C28: a delivery attempt whose POST threw or got a non-ok response, and
\* which finds the record, goes on to write it; what it writes has a failure
\* status (retrying, dlq or failed) and a non-empty errorMessage, and is never
\* status forwarded.
C28_FailedAttemptIsRecorded ==
    /\ [][\A x \in Suspended("ForwardWebhook", "get") :
            (AttemptLooksUp(x) /\ Exists(x.input.webhookId) /\ AttemptFailed(x.fetched))
            => \E y \in BagToSet(running') :
                  /\ AttemptReads(x, y)
                  /\ y.input = x.input /\ y.fetched = x.fetched]_vars
    /\ [][\A x \in Suspended("ForwardWebhook", "set") :
            (AttemptWrites(x) /\ AttemptFailed(x.fetched))
            => LET webhook == store'[x.input.webhookId]
               IN  /\ webhook.status \in FailureStatuses
                   /\ webhook.status # "forwarded"
                   /\ Has(webhook, "errorMessage")
                   /\ webhook.errorMessage # ""]_vars

\* both kinds of failure recorded: one record after a rejected fetch, one
\* after a 503
C28_Witness ==
    /\ running = EmptyBag
    /\ \E id \in DOMAIN store :
          /\ store[id].status = "failed"
          /\ store[id].errorMessage = NetworkError.message
    /\ \E id \in DOMAIN store :
          /\ store[id].status = "failed"
          /\ store[id].errorMessage = "HTTP 503: Service Unavailable"

----------------------------------------------------------------------------
(* POSTs per dispatched message *)

\* the number of POSTs sent to targets so far
Posts == BagCardinality(posted)

\* a failure the scheduler is meant to retry: a 5xx, or the POST throwing
TransientFailure(fetched) == fetched.threw \/ Is5xx(fetched)

\* what a record shows after an attempt that did not fail transiently
ShowsNonTransientOutcome(webhook) ==
    \/ webhook.status = "forwarded"
    \/ /\ Has(webhook, "errorMessage")
       /\ webhook.errorMessage \in {"HTTP 304: Not Modified", "HTTP 404: Not Found"}

----------------------------------------------------------------------------
(* Attempts for an id without a record *)

\* C30: when the webhookId of a webhook-forward message has no record in the
\* store, the attempt for it sends no POST to the target.
C30_NoPostWithoutRecord ==
    [][(\E x \in StartedAttempts : ~Exists(x.input.webhookId)) => posted' = posted]_vars

----------------------------------------------------------------------------
(* The target of the last replay *)

\* C31: once every attempt dispatched for an id has completed (none is on
\* the bus or executing), the record's targetUrl is the targetUrl of the
\* Replay accepted last for that id, also when the attempt of an earlier
\* Replay was still pending as the later one was accepted.  (Stated for the
\* records that show a targetUrl, and for ids no manual retry is working on.)
C31_TargetUrlIsLastReplayed ==
    \A id \in DOMAIN replayed :
        (/\ InFlight(id) = 0
         /\ \A y \in BagToSet(running) : y.handler = "RetryWebhook" => y.id # id
         /\ Has(store[id], "targetUrl"))
        => store[id].targetUrl = replayed[id]

----------------------------------------------------------------------------
(* What a manual retry's write leaves alone *)

RetryFields == {"status", "retryCount", "lastRetryAt"}

\* C32: the write of an accepted ManualRetry changes only status, retryCount
\* and lastRetryAt: every other field of the record (targetUrl, forwardedAt,
\* errorMessage, dlqAt and the capture fields) is after the write what it was
\* before the write.
C32_RetryWriteChangesOnlyRetryFields ==
    [][\A x \in Suspended("RetryWebhook", "set") :
          RetryWrites(x)
          => \A k \in (DOMAIN store[x.id] \cup DOMAIN store'[x.id]) \ RetryFields :
                SameField(store[x.id], store'[x.id], k)]_vars

----------------------------------------------------------------------------
(* errorMessage under a successful attempt *)

\* C33: the write of a successful delivery attempt (its POST got an ok
\* response) leaves the record's errorMessage as it is: it neither clears it
\* nor rewrites it, so the errorMessage an earlier failure recorded is still
\* there after the write that sets status forwarded.
C33_SuccessKeepsErrorMessage ==
    [][\A x \in Suspended("ForwardWebhook", "set") :
          (AttemptWrites(x) /\ ~AttemptFailed(x.fetched))
          => SameField(store[x.input.webhookId], store'[x.input.webhookId],
                       "errorMessage")]_vars

----------------------------------------------------------------------------
(* Which records a manual retry accepts *)

\* C34: a ManualRetry for a record whose status is received, forwarded or
\* retrying is refused: it changes nothing, it does not go on to write the
\* record and it dispatches no attempt.
C34_RetryOnlyOfFailedOrDlq ==
    [][\A id \in RequestIds :
        (/\ RetryCalled(id)
         /\ Exists(id)
         /\ store[id].status \in {"received", "forwarded", "retrying"})
        => /\ store' = store
           /\ bus' = bus
           /\ running' = running]_vars

----------------------------------------------------------------------------
(* Replay bodies that do not validate *)

\* C35: a Replay whose body has no targetUrl, or one that is not a URL, is
\* rejected with a validation error whether or not the id has a record: it
\* emits no webhook-forward message, leaves the store as it is and starts no
\* handler.
C35_InvalidReplayIsRejected ==
    [][(Replays /\ request'.targetUrl \notin URLs)
       => /\ response'.handler = "ReplayWebhook"
          /\ Has(response', "threw") /\ response'.threw = "ZodError"
          /\ ~Has(response', "status")
          /\ bus' = bus
          /\ store' = store
          /\ running' = running
          /\ replayed' = replayed]_vars

\* a Replay without targetUrl for a stored record was rejected, and nothing
\* was dispatched for it
C35_Witness ==
    /\ request.handler = "ReplayWebhook"
    /\ request.targetUrl = Undefined
    /\ Exists(request.id)
    /\ response = [handler |-> "ReplayWebhook", threw |-> "ZodError"]
    /\ bus = EmptyBag
    /\ running = EmptyBag

----------------------------------------------------------------------------
(* Fields that come with a status *)

\* C36: in every reachable state a record whose status is not received has
\* a targetUrl, and a record whose status is forwarded, failed or dlq has a
\* forwardedAt as well.
C36_StatusImpliesFields ==
    \A id \in DOMAIN store :
        /\ store[id].status # "received" => Has(store[id], "targetUrl")
        /\ store[id].status \in {"forwarded", "failed", "dlq"}
              => Has(store[id], "forwardedAt")

\* a record whose attempt failed and which a manual retry has just rewritten:
\* it is retrying and still shows the target and the time of the attempt
C36_Witness ==
    \E y \in Suspended("RetryWebhook", "emit") :
        /\ Exists(y.id)
        /\ store[y.id].status = "retrying"
        /\ Has(store[y.id], "targetUrl")
        /\ Has(store[y.id], "forwardedAt")
        /\ Has(store[y.id], "errorMessage")

----------------------------------------------------------------------------
(* forwarded and targetUrl come from one attempt *)

\* C37: a record with status forwarded has a targetUrl to which a POST has
\* been sent, and status forwarded and the targetUrl are written together by
\* one attempt for that id whose POST to that URL got an ok response: every
\* step that makes a record forwarded, or changes the targetUrl of a
\* forwarded record, is the write of such an attempt, also when attempts to
\* different URLs for the id interleave.
C37_ForwardedToTheUrlThatAnsweredOk ==
    /\ [](\A id \in DOMAIN store :
            store[id].status = "forwarded"
            => /\ Has(store[id], "targetUrl")
               /\ \E p \in BagToSet(posted) : p.url = store[id].targetUrl)
    /\ [][\A id \in DOMAIN store' :
            (/\ store'[id].status = "forwarded"
             /\ \/ id \notin DOMAIN store
                \/ store[id].status # "forwarded"
                \/ ~SameField(store[id], store'[id], "targetUrl"))
            => \E x \in Suspended("ForwardWebhook", "set") :
                  /\ AttemptWrites(x)
                  /\ x.input.webhookId = id
                  /\ ~x.fetched.threw /\ ResponseOk(x.fetched)
                  /\ x.sent.url = store'[id].targetUrl]_vars

\* attempts to both URLs were made for one id; the one to the flaky target
\* was answered 200 and wrote last
C37_Witness ==
    /\ Len(returned) = 1
    /\ \E id \in DOMAIN store :
          /\ store[id].status = "forwarded"
          /\ store[id].targetUrl = FlakyUrl
    /\ \E p \in BagToSet(posted) : p.url = OkUrl
    /\ \E p \in BagToSet(posted) : p.url = FlakyUrl
    /\ running = EmptyBag

----------------------------------------------------------------------------
(* The page of GET /webhooks for a limit and an offset that are not negative *)

\* C38: when the limit and the offset a caller supplies to GET /webhooks are
\* integers >= 0, the response holds at most limit records and its limit and
\* offset fields are the supplied values; a limit of 0 gives an empty page.
C38_PageWithinSuppliedLimit ==
    [][request'.handler = "ListWebhooks" =>
        LET query == request'.query
        IN  /\ (Has(query, "limit") /\ Decimal[query.limit] >= 0)
               => /\ Len(response'.body.webhooks) <= Decimal[query.limit]
                  /\ response'.body.limit = Decimal[query.limit]
            /\ (Has(query, "offset") /\ Decimal[query.offset] >= 0)
               => response'.body.offset = Decimal[query.offset]
    ]_vars

====
